---- MODULE Spec2Model ----
(***************************************************************************)
(* A state-machine model of src/viewer.js: the annotation store, the tour  *)
(* controller, the measuring and placing modes, click routing and the      *)
(* camera animator.                                                        *)
(*                                                                         *)
(* Conventions                                                             *)
(*  - A JavaScript value that may be null is a sequence of length 0 or 1:  *)
(*    None is null, Some(v) is the value v.                                *)
(*  - A THREE.Vector3 is a triple <<x, y, z>> of integers in hundredths of *)
(*    a scene unit (0.5 is 50).                                            *)
(*  - A text is a sequence of tokens; the token " " is white space.        *)
(*  - Every handler of the source is an operator from the application      *)
(*    state (the record St) to the application state after the handler     *)
(*    returned; an action applies one handler to the current state.        *)
(***************************************************************************)
EXTENDS Integers, Sequences, FiniteSets, TLC

VARIABLES
    model,                      \* state.model: None until onModelLoaded
    loadingScreen,              \* #loading-screen: "loading" | "hidden" | "error"
    annotations,                \* state.annotations
    annotationMarkers,          \* state.annotationMarkers
    tourIndex,                  \* state.tourIndex
    isTourActive,               \* state.isTourActive
    infoPanel,                  \* #info-panel: hidden flag, #info-title, #info-description
    isMeasuring,                \* state.isMeasuring
    measurePoints,              \* state.measurePoints
    measureMarkers,             \* state.measureMarkers
    measureLine,                \* state.measureLine
    measurementResult,          \* #measurement-result text
    isAddingAnnotation,         \* state.isAddingAnnotation
    pendingAnnotationPosition,  \* state.pendingAnnotationPosition
    previewMarker,              \* state.previewMarker
    placedMarker,               \* state.placedMarker
    scene,                      \* state.scene: how many preview and placed markers it holds
    cameraPosition,             \* state.camera.position
    controlsTarget,             \* state.controls.target
    frameCallbacks,             \* update closures waiting in requestAnimationFrame
    lastCall                    \* the handler invoked last, with its arguments

vars == <<model, loadingScreen, annotations, annotationMarkers, tourIndex,
          isTourActive, infoPanel, isMeasuring, measurePoints, measureMarkers,
          measureLine, measurementResult, isAddingAnnotation,
          pendingAnnotationPosition, previewMarker, placedMarker, scene,
          cameraPosition, controlsTarget, frameCallbacks, lastCall>>

(***************************************************************************)
(* Bounds of the model                                                     *)
(***************************************************************************)
\* The annotation list is unbounded in the source; the model stops adding here.
MaxAnnotations == 2
\* Camera animations in flight at once; the source sets no limit.
MaxAnimations == 1
\* The same where the claim is about overlapping animations.
MaxCameraAnimations == 2

(***************************************************************************)
(* Values                                                                  *)
(***************************************************************************)
None == <<>>
Some(v) == <<v>>
Get(o) == o[1]

\* Points of the model's surface a ray can hit: (0,0,0), (3,4,0), (1,1,0).
SurfacePoints == {<<0, 0, 0>>, <<300, 400, 0>>, <<100, 100, 0>>}

\* The surface points the clicks of Spec hit, and the one its pointer hovers.
PlacementPoints == {<<0, 0, 0>>, <<300, 400, 0>>}
HoverPoints == {<<0, 0, 0>>}

\* What the user typed into #annotation-title and #annotation-description.
TitleInputs == {<<>>, <<" ">>, <<" ", "Horse", " ">>}
DescriptionInputs == {<<" ">>}

\* The size of the loaded model's bounding box (6 x 4 x 2 units).
ModelSize == <<600, 400, 200>>

VecAdd(a, b) == <<a[1] + b[1], a[2] + b[2], a[3] + b[3]>>
LiftY(p, dy) == <<p[1], p[2] + dy, p[3]>>
Max(a, b) == IF a >= b THEN a ELSE b
Min(a, b) == IF a <= b THEN a ELSE b

(***************************************************************************)
(* String.prototype.trim on a token sequence                               *)
(***************************************************************************)
RECURSIVE TrimStart(_)
TrimStart(t) ==
    IF t # <<>> /\ Head(t) = " " THEN TrimStart(Tail(t)) ELSE t

RECURSIVE TrimEnd(_)
TrimEnd(t) ==
    IF t # <<>> /\ t[Len(t)] = " " THEN TrimEnd(SubSeq(t, 1, Len(t) - 1)) ELSE t

Trim(t) == TrimEnd(TrimStart(t))

\* description || 'No description provided.'
DescriptionPlaceholder == <<"No description provided.">>

(***************************************************************************)
(* The application state as one record                                     *)
(***************************************************************************)
St == [model |-> model,
       loadingScreen |-> loadingScreen,
       annotations |-> annotations,
       annotationMarkers |-> annotationMarkers,
       tourIndex |-> tourIndex,
       isTourActive |-> isTourActive,
       infoPanel |-> infoPanel,
       isMeasuring |-> isMeasuring,
       measurePoints |-> measurePoints,
       measureMarkers |-> measureMarkers,
       measureLine |-> measureLine,
       measurementResult |-> measurementResult,
       isAddingAnnotation |-> isAddingAnnotation,
       pendingAnnotationPosition |-> pendingAnnotationPosition,
       previewMarker |-> previewMarker,
       placedMarker |-> placedMarker,
       scene |-> scene,
       cameraPosition |-> cameraPosition,
       controlsTarget |-> controlsTarget,
       frameCallbacks |-> frameCallbacks]

\* CONFIG.initialCameraPosition and the target set by setupControls.
InitialCameraPosition == <<0, 200, 500>>
InitialControlsTarget == <<0, 50, 0>>

InitialState ==
    [model |-> None,
     loadingScreen |-> "loading",
     annotations |-> <<>>,
     annotationMarkers |-> <<>>,
     tourIndex |-> -1,
     isTourActive |-> FALSE,
     infoPanel |-> [hidden |-> TRUE, title |-> <<>>, description |-> <<>>],
     isMeasuring |-> FALSE,
     measurePoints |-> <<>>,
     measureMarkers |-> <<>>,
     measureLine |-> None,
     measurementResult |-> None,
     isAddingAnnotation |-> FALSE,
     pendingAnnotationPosition |-> None,
     previewMarker |-> None,
     placedMarker |-> None,
     scene |-> [previewMarkers |-> 0, placedMarkers |-> 0],
     cameraPosition |-> InitialCameraPosition,
     controlsTarget |-> InitialControlsTarget,
     frameCallbacks |-> <<>>]

(***************************************************************************)
(* Camera animator                                                         *)
(***************************************************************************)
\* animateCamera's default duration, in milliseconds.
Duration == 1000

\* Milliseconds between two display refreshes the model lets pass.
FrameTimes == {1000}

\* The number NaN, which no arithmetic of the model produces otherwise.
NaN == -999999999

\* Math.min(elapsed / duration, 1), in thousandths. With duration = 0 the
\* quotient is 0 / 0 = NaN for elapsed = 0 and Infinity for elapsed > 0, and
\* Math.min(NaN, 1) is NaN.
Progress(elapsed, duration) ==
    IF duration = 0
    THEN IF elapsed = 0 THEN NaN ELSE 1000
    ELSE Min((elapsed * 1000) \div duration, 1000)

\* easeOutCubic: 1 - (1 - t)^3, t and the result in thousandths.
easeOutCubic(t) ==
    IF t = NaN THEN NaN
    ELSE 1000 - ((1000 - t) * (1000 - t) * (1000 - t)) \div 1000000

\* One coordinate of lerpVectors: a + (b - a) * alpha; NaN if any part is.
Lerp(a, b, alpha) ==
    IF a = NaN \/ b = NaN \/ alpha = NaN THEN NaN
    ELSE a + ((b - a) * alpha) \div 1000

\* Vector3.lerpVectors: v1 + (v2 - v1) * alpha, alpha in thousandths.
lerpVectors(v1, v2, alpha) ==
    <<Lerp(v1[1], v2[1], alpha),
      Lerp(v1[2], v2[2], alpha),
      Lerp(v1[3], v2[3], alpha)>>

\* One call of animateCamera's closure update(), `elapsed` milliseconds after
\* the animation started: the camera moves, and the closure asks for another
\* frame while progress < 1.
update(s, cb, elapsed) ==
    LET progress == Progress(elapsed, cb.duration)
        eased == easeOutCubic(progress)
        moved == [s EXCEPT
                    !.cameraPosition =
                        lerpVectors(cb.startPosition, cb.newPosition, eased),
                    !.controlsTarget =
                        lerpVectors(cb.startTarget, cb.newTarget, eased)]
    IN  IF progress # NaN /\ progress < 1000
        THEN [moved EXCEPT !.frameCallbacks =
                 Append(@, [cb EXCEPT !.elapsed = elapsed])]
        ELSE moved

\* animateCamera, its first update() reading the clock `elapsed` milliseconds
\* after startTime was taken.
animateCameraAt(s, newPosition, newTarget, duration, elapsed) ==
    update(s,
           [startPosition |-> s.cameraPosition,
            startTarget |-> s.controlsTarget,
            newPosition |-> newPosition,
            newTarget |-> newTarget,
            duration |-> duration,
            elapsed |-> 0],
           elapsed)

\* animateCamera with both clock readings in the same millisecond.
animateCamera(s, newPosition, newTarget, duration) ==
    animateCameraAt(s, newPosition, newTarget, duration, 0)

\* A display refresh dt milliseconds after the previous one: the closures
\* registered before it run in the order they were registered.
RECURSIVE RunCallbacks(_, _, _)
RunCallbacks(s, cbs, dt) ==
    IF cbs = <<>> THEN s
    ELSE RunCallbacks(update(s, Head(cbs), Head(cbs).elapsed + dt), Tail(cbs), dt)

animate(s, dt) ==
    RunCallbacks([s EXCEPT !.frameCallbacks = <<>>], s.frameCallbacks, dt)

\* d milliseconds pass: the start of every waiting closure lies d further back.
Elapse(cbs, d) == [k \in 1..Len(cbs) |-> [cbs[k] EXCEPT !.elapsed = @ + d]]

\* A display refresh in which the clock moves on between the closures:
\* ticks[k] milliseconds pass before the k-th closure reads performance.now().
RECURSIVE RunCallbacksTicking(_, _, _)
RunCallbacksTicking(s, cbs, ticks) ==
    IF cbs = <<>> THEN s
    ELSE LET waiting == Elapse(cbs, Head(ticks))
             passed == [s EXCEPT !.frameCallbacks = Elapse(@, Head(ticks))]
         IN  RunCallbacksTicking(
                 update(passed, Head(waiting), Head(waiting).elapsed),
                 Tail(waiting), Tail(ticks))

animateTicking(s, ticks) ==
    RunCallbacksTicking([s EXCEPT !.frameCallbacks = <<>>], s.frameCallbacks,
                        ticks)

(***************************************************************************)
(* Annotation system                                                       *)
(***************************************************************************)
\* createAnnotationMarker: a group lifted 0.06 * scale above the surface.
createAnnotationMarker(position, index, isPreview) ==
    [position |-> LiftY(position, IF isPreview THEN 9 ELSE 6),
     index |-> index,
     isPreview |-> isPreview,
     visible |-> TRUE]

\* Mutant of update3DAnnotationMarkers: the old markers are not dropped.
update3DAnnotationMarkersAppending(s) ==
    [s EXCEPT !.annotationMarkers =
        @ \o [k \in 1..Len(s.annotations) |->
                 createAnnotationMarker(s.annotations[k].position, k - 1, FALSE)]]

update3DAnnotationMarkers(s) ==
    [s EXCEPT !.annotationMarkers =
        [k \in 1..Len(s.annotations) |->
            createAnnotationMarker(s.annotations[k].position, k - 1, FALSE)]]

\* Array.prototype.splice(index, 1): a negative index counts from the end.
Splice1(seq, index) ==
    LET n == Len(seq)
        start == IF index < 0 THEN Max(n + index, 0) ELSE Min(index, n)
    IN  IF start < n
        THEN SubSeq(seq, 1, start) \o SubSeq(seq, start + 2, n)
        ELSE seq

\* Mutant of Renumber: the ids are left as they were.
RenumberSkipped(seq) == seq

Renumber(seq) == [k \in 1..Len(seq) |-> [seq[k] EXCEPT !.id = k]]

HidePanel(s) == [s EXCEPT !.infoPanel.hidden = TRUE]

\* Mutant of ClampTourIndex: the cursor is not clamped after a removal.
ClampTourIndexSkipped(s) == s

\* if (state.tourIndex >= state.annotations.length) ...
ClampTourIndex(s) ==
    IF s.tourIndex >= Len(s.annotations)
    THEN [s EXCEPT !.tourIndex = Len(s.annotations) - 1]
    ELSE s

\* if (state.annotations.length === 0) ...
ResetTourIfEmpty(s) ==
    IF Len(s.annotations) = 0
    THEN HidePanel([s EXCEPT !.tourIndex = -1])
    ELSE s

\* Mutant of deleteAnnotation: deleting the focused entry clears the cursor
\* and closes the panel.
deleteAnnotationUnfocuses(s, index) ==
    LET removed == [s EXCEPT !.annotations = Renumber(Splice1(@, index))]
        moved == IF index = s.tourIndex
                 THEN HidePanel([removed EXCEPT !.tourIndex = -1])
                 ELSE ClampTourIndex(removed)
    IN  update3DAnnotationMarkers(ResetTourIfEmpty(moved))

deleteAnnotation(s, index) ==
    LET removed == [s EXCEPT !.annotations = Renumber(Splice1(@, index))]
    IN  update3DAnnotationMarkers(ResetTourIfEmpty(ClampTourIndex(removed)))

\* The offset of the camera from a focused annotation: (0.5, 0.3, 1.5).
CameraOffset == <<50, 30, 150>>

\* Mutant of focusAnnotation: the cursor is set before the entry is looked up.
focusAnnotationCursorFirst(s, index) ==
    IF index < 0 \/ index >= Len(s.annotations)
    THEN [s EXCEPT !.tourIndex = index]
    ELSE LET annotation == s.annotations[index + 1]
             shown == [s EXCEPT
                          !.tourIndex = index,
                          !.infoPanel = [hidden |-> FALSE,
                                         title |-> annotation.title,
                                         description |-> annotation.description]]
         IN  animateCamera(shown,
                           VecAdd(annotation.position, CameraOffset),
                           annotation.position,
                           Duration)

focusAnnotation(s, index) ==
    IF index < 0 \/ index >= Len(s.annotations)
    THEN s
    ELSE LET annotation == s.annotations[index + 1]
             shown == [s EXCEPT
                          !.tourIndex = index,
                          !.infoPanel = [hidden |-> FALSE,
                                         title |-> annotation.title,
                                         description |-> annotation.description]]
         IN  animateCamera(shown,
                           VecAdd(annotation.position, CameraOffset),
                           annotation.position,
                           Duration)

(***************************************************************************)
(* Tour system                                                             *)
(***************************************************************************)
\* Mutant of startTour: the tour is marked active before the list is checked.
startTourActiveFirst(s) ==
    IF Len(s.annotations) = 0
    THEN [s EXCEPT !.isTourActive = TRUE]
    ELSE focusAnnotation([s EXCEPT !.isTourActive = TRUE, !.tourIndex = 0], 0)

startTour(s) ==
    IF Len(s.annotations) = 0
    THEN s
    ELSE focusAnnotation([s EXCEPT !.isTourActive = TRUE, !.tourIndex = 0], 0)

\* Mutant of endTour: the detail panel is left as it is.
endTourPanelKept(s) ==
    [s EXCEPT !.isTourActive = FALSE, !.tourIndex = -1]

endTour(s) ==
    HidePanel([s EXCEPT !.isTourActive = FALSE, !.tourIndex = -1])

\* Mutant of nextTourStop: past the last stop the tour wraps to the first.
nextTourStopWrapping(s) ==
    IF s.tourIndex < Len(s.annotations) - 1
    THEN focusAnnotation(s, s.tourIndex + 1)
    ELSE focusAnnotation(s, 0)

nextTourStop(s) ==
    IF s.tourIndex < Len(s.annotations) - 1
    THEN focusAnnotation(s, s.tourIndex + 1)
    ELSE s

prevTourStop(s) ==
    IF s.tourIndex > 0
    THEN focusAnnotation(s, s.tourIndex - 1)
    ELSE s

(***************************************************************************)
(* Measurement tool                                                        *)
(***************************************************************************)
toggleMeasureModeFlag(s) == [s EXCEPT !.isMeasuring = ~@]

clearMeasurement(s) ==
    [s EXCEPT !.measurePoints = <<>>,
              !.measureMarkers = <<>>,
              !.measureLine = None,
              !.measurementResult = None]

\* Mutant of toggleMeasureMode: the session is cleared on entering only.
toggleMeasureModeClearsOnEnter(s) ==
    IF s.isMeasuring THEN toggleMeasureModeFlag(s)
    ELSE clearMeasurement(toggleMeasureModeFlag(s))

toggleMeasureMode(s) == clearMeasurement(toggleMeasureModeFlag(s))

\* The largest n in lo..hi with n * n <= x.
RECURSIVE IsqrtIn(_, _, _)
IsqrtIn(x, lo, hi) ==
    IF lo >= hi THEN lo
    ELSE LET mid == (lo + hi + 1) \div 2
         IN  IF mid * mid <= x THEN IsqrtIn(x, mid, hi) ELSE IsqrtIn(x, lo, mid - 1)

Isqrt(x) == IsqrtIn(x, 0, 46340)

\* Vector3.distanceToSquared, in hundredths squared.
distanceToSquared(a, b) ==
    (a[1] - b[1]) * (a[1] - b[1]) + (a[2] - b[2]) * (a[2] - b[2])
        + (a[3] - b[3]) * (a[3] - b[3])

\* Mutant of distanceToFixed3: the digits after the third are cut, not rounded.
distanceTruncated3(a, b) == Isqrt(100 * distanceToSquared(a, b))

\* a.distanceTo(b).toFixed(3): the distance in units rounded to the nearest
\* thousandth, as the number of thousandths. Ten thousandths make a hundredth,
\* so the result is sqrt(100 * d2) rounded to the nearest integer.
distanceToFixed3(a, b) ==
    LET x == 100 * distanceToSquared(a, b)
        n == Isqrt(x)
    IN  IF x > n * n + n THEN n + 1 ELSE n

addMeasurePoint(s, point) ==
    LET pushed == [s EXCEPT !.measureMarkers = Append(@, point),
                            !.measurePoints = Append(@, point)]
    IN  IF Len(pushed.measurePoints) = 2
        THEN [pushed EXCEPT
                 !.measurementResult =
                     Some(distanceToFixed3(pushed.measurePoints[1],
                                           pushed.measurePoints[2])),
                 !.measureLine = Some(pushed.measurePoints)]
        ELSE pushed

(***************************************************************************)
(* Add-annotation mode                                                     *)
(***************************************************************************)
\* The place the hidden preview marker is created at: (0, -1000, 0).
PreviewParking == <<0, -100000, 0>>

\* state.scene.remove(marker) under `if (marker)`, as the new count.
SceneRemove(marker, count) == IF marker # None THEN count - 1 ELSE count

toggleAddAnnotationMode(s) ==
    LET t == [s EXCEPT !.isAddingAnnotation = ~@]
    IN  IF t.isAddingAnnotation
        THEN [t EXCEPT
                 !.pendingAnnotationPosition = None,
                 !.previewMarker =
                     Some([createAnnotationMarker(PreviewParking, -1, TRUE)
                              EXCEPT !.visible = FALSE]),
                 !.scene.previewMarkers = SceneRemove(s.previewMarker, @) + 1]
        ELSE [t EXCEPT
                 !.previewMarker = None,
                 !.placedMarker = None,
                 !.scene.previewMarkers = SceneRemove(s.previewMarker, @),
                 !.scene.placedMarkers = SceneRemove(s.placedMarker, @)]

\* createPlacedMarker: a group lifted 0.1 above the surface.
createPlacedMarker(position) == [position |-> LiftY(position, 10), isPlaced |-> TRUE]

\* Mutant of setAnnotationPosition: the marker of the previous click is not
\* removed from the scene.
setAnnotationPositionKeepsOld(s, point) ==
    LET staged == [s EXCEPT !.pendingAnnotationPosition = Some(point)]
        hidden == IF staged.previewMarker # None
                  THEN [staged EXCEPT !.previewMarker[1].visible = FALSE]
                  ELSE staged
    IN  [hidden EXCEPT !.placedMarker = Some(createPlacedMarker(point)),
                       !.scene.placedMarkers = @ + 1]

setAnnotationPosition(s, point) ==
    LET staged == [s EXCEPT !.pendingAnnotationPosition = Some(point)]
        hidden == IF staged.previewMarker # None
                  THEN [staged EXCEPT !.previewMarker[1].visible = FALSE]
                  ELSE staged
    IN  [hidden EXCEPT !.placedMarker = Some(createPlacedMarker(point)),
                       !.scene.placedMarkers =
                           SceneRemove(s.placedMarker, @) + 1]

\* Mutant of saveAnnotation: the title is not checked.
saveAnnotationAnyTitle(s, titleInput, descriptionInput) ==
    LET title == Trim(titleInput)
        description == Trim(descriptionInput)
    IN  IF s.pendingAnnotationPosition = None
        THEN s
        ELSE LET newAnnotation ==
                     [id |-> Len(s.annotations) + 1,
                      title |-> title,
                      description |-> IF description = <<>>
                                      THEN DescriptionPlaceholder
                                      ELSE description,
                      position |-> Get(s.pendingAnnotationPosition)]
                 pushed == [s EXCEPT !.annotations = Append(@, newAnnotation),
                                     !.placedMarker = None,
                                     !.scene.placedMarkers =
                                         SceneRemove(s.placedMarker, @)]
             IN  toggleAddAnnotationMode(update3DAnnotationMarkers(pushed))

\* Mutant of saveAnnotation: an empty description is stored as it is.
saveAnnotationNoPlaceholder(s, titleInput, descriptionInput) ==
    LET title == Trim(titleInput)
        description == Trim(descriptionInput)
    IN  IF title = <<>> \/ s.pendingAnnotationPosition = None
        THEN s
        ELSE LET newAnnotation ==
                     [id |-> Len(s.annotations) + 1,
                      title |-> title,
                      description |-> description,
                      position |-> Get(s.pendingAnnotationPosition)]
                 pushed == [s EXCEPT !.annotations = Append(@, newAnnotation),
                                     !.placedMarker = None,
                                     !.scene.placedMarkers =
                                         SceneRemove(s.placedMarker, @)]
             IN  toggleAddAnnotationMode(update3DAnnotationMarkers(pushed))

saveAnnotation(s, titleInput, descriptionInput) ==
    LET title == Trim(titleInput)
        description == Trim(descriptionInput)
    IN  IF title = <<>> \/ s.pendingAnnotationPosition = None
        THEN s
        ELSE LET newAnnotation ==
                     [id |-> Len(s.annotations) + 1,
                      title |-> title,
                      description |-> IF description = <<>>
                                      THEN DescriptionPlaceholder
                                      ELSE description,
                      position |-> Get(s.pendingAnnotationPosition)]
                 pushed == [s EXCEPT !.annotations = Append(@, newAnnotation),
                                     !.placedMarker = None,
                                     !.scene.placedMarkers =
                                         SceneRemove(s.placedMarker, @)]
             IN  toggleAddAnnotationMode(update3DAnnotationMarkers(pushed))

cancelAnnotation(s) == toggleAddAnnotationMode(s)

(***************************************************************************)
(* Utility functions                                                       *)
(***************************************************************************)
resetView(s) ==
    IF s.model = None
    THEN s
    ELSE animateCamera(s,
                       <<0, ModelSize[2] \div 2,
                         2 * Max(ModelSize[1], Max(ModelSize[2], ModelSize[3]))>>,
                       <<0, (ModelSize[2] * 3) \div 10, 0>>,
                       Duration)

(***************************************************************************)
(* Model loading                                                           *)
(***************************************************************************)
onModelLoaded(s) ==
    [s EXCEPT !.model = Some("gltf.scene"),
              !.cameraPosition =
                  <<0, ModelSize[2] \div 2,
                    2 * Max(ModelSize[1], Max(ModelSize[2], ModelSize[3]))>>,
              !.controlsTarget = <<0, (ModelSize[2] * 3) \div 10, 0>>,
              !.loadingScreen = "hidden"]

\* Mutant of onLoadError: the failure starts another load.
onLoadErrorRetrying(s) == [s EXCEPT !.loadingScreen = "loading"]

onLoadError(s) == [s EXCEPT !.loadingScreen = "error"]

(***************************************************************************)
(* Raycasting and interaction                                              *)
(***************************************************************************)
\* What the ray of a pointer event meets: markerHit is None or Some(k), the
\* k-th entry of annotationMarkers being the nearest marker on the ray;
\* modelHit is None or Some(p), p the nearest point of the model on the ray.
\* Mutant of CanRecordMeasurePoint: the mode is not checked.
CanRecordMeasurePointAnyMode(s) == Len(s.measurePoints) < 2

\* Mutant of CanRecordMeasurePoint: the number of points is not checked.
CanRecordMeasurePointAlways(s) == s.isMeasuring

\* state.isMeasuring && state.measurePoints.length < 2
CanRecordMeasurePoint(s) == s.isMeasuring /\ Len(s.measurePoints) < 2

\* Mutant of onCanvasClick: the click is handled without a loaded model.
onCanvasClickNoModelCheck(s, markerHit, modelHit) ==
    IF /\ ~s.isMeasuring
       /\ ~s.isAddingAnnotation
       /\ Len(s.annotationMarkers) > 0
       /\ markerHit # None
       /\ ~s.annotationMarkers[Get(markerHit)].isPreview
    THEN focusAnnotation(s, s.annotationMarkers[Get(markerHit)].index)
    ELSE IF modelHit = None
         THEN s
         ELSE IF CanRecordMeasurePoint(s)
              THEN addMeasurePoint(s, Get(modelHit))
              ELSE IF s.isAddingAnnotation
                   THEN setAnnotationPosition(s, Get(modelHit))
                   ELSE s

\* Mutant of onCanvasClick: the markers are hit-tested in every mode.
onCanvasClickMarkersAlways(s, markerHit, modelHit) ==
    IF s.model = None
    THEN s
    ELSE IF /\ Len(s.annotationMarkers) > 0
            /\ markerHit # None
            /\ ~s.annotationMarkers[Get(markerHit)].isPreview
         THEN focusAnnotation(s, s.annotationMarkers[Get(markerHit)].index)
         ELSE IF modelHit = None
              THEN s
              ELSE IF CanRecordMeasurePoint(s)
                   THEN addMeasurePoint(s, Get(modelHit))
                   ELSE IF s.isAddingAnnotation
                        THEN setAnnotationPosition(s, Get(modelHit))
                        ELSE s

onCanvasClick(s, markerHit, modelHit) ==
    IF s.model = None
    THEN s
    ELSE IF /\ ~s.isMeasuring
            /\ ~s.isAddingAnnotation
            /\ Len(s.annotationMarkers) > 0
            /\ markerHit # None
            /\ ~s.annotationMarkers[Get(markerHit)].isPreview
         THEN focusAnnotation(s, s.annotationMarkers[Get(markerHit)].index)
         ELSE IF modelHit = None
              THEN s
              ELSE IF CanRecordMeasurePoint(s)
                   THEN addMeasurePoint(s, Get(modelHit))
                   ELSE IF s.isAddingAnnotation
                        THEN setAnnotationPosition(s, Get(modelHit))
                        ELSE s

\* Mutant of onCanvasMouseMove: leaving the model also drops the staged
\* position and its marker.
onCanvasMouseMoveMissUnstages(s, modelHit) ==
    IF s.model = None \/ ~s.isAddingAnnotation
    THEN s
    ELSE IF modelHit # None /\ s.previewMarker # None
         THEN [s EXCEPT !.previewMarker[1].position = LiftY(Get(modelHit), 9),
                        !.previewMarker[1].visible = TRUE]
         ELSE IF s.previewMarker # None
              THEN [s EXCEPT !.previewMarker[1].visible = FALSE,
                             !.pendingAnnotationPosition = None,
                             !.placedMarker = None]
              ELSE s

onCanvasMouseMove(s, modelHit) ==
    IF s.model = None \/ ~s.isAddingAnnotation
    THEN s
    ELSE IF modelHit # None /\ s.previewMarker # None
         THEN [s EXCEPT !.previewMarker[1].position = LiftY(Get(modelHit), 9),
                        !.previewMarker[1].visible = TRUE]
         ELSE IF s.previewMarker # None
              THEN [s EXCEPT !.previewMarker[1].visible = FALSE]
              ELSE s

(***************************************************************************)
(* Event listeners                                                         *)
(***************************************************************************)
\* The click listener of #btn-tour-start.
tourStartClick(s) == IF s.isTourActive THEN endTour(s) ELSE startTour(s)

\* The click listener of #info-close.
infoCloseClick(s) == HidePanel(s)

\* The keydown listener, for the keys that act on the modelled state.
Keys == {"Escape", "ArrowRight", "ArrowLeft"}

keydown(s, key) ==
    CASE key = "Escape" ->
            LET cancelled == IF s.isAddingAnnotation THEN cancelAnnotation(s) ELSE s
            IN  IF cancelled.isTourActive THEN endTour(cancelled) ELSE cancelled
      [] key = "ArrowRight" -> IF s.isTourActive THEN nextTourStop(s) ELSE s
      [] key = "ArrowLeft" -> IF s.isTourActive THEN prevTourStop(s) ELSE s
      [] OTHER -> s

(***************************************************************************)
(* Actions: one per handler the page or the loader can invoke              *)
(***************************************************************************)
Call(op, args) == [op |-> op, args |-> args]

\* The handler `op` ran with `args` and left the application in state r.
Commit(r, op, args) ==
    /\ model' = r.model
    /\ loadingScreen' = r.loadingScreen
    /\ annotations' = r.annotations
    /\ annotationMarkers' = r.annotationMarkers
    /\ tourIndex' = r.tourIndex
    /\ isTourActive' = r.isTourActive
    /\ infoPanel' = r.infoPanel
    /\ isMeasuring' = r.isMeasuring
    /\ measurePoints' = r.measurePoints
    /\ measureMarkers' = r.measureMarkers
    /\ measureLine' = r.measureLine
    /\ measurementResult' = r.measurementResult
    /\ isAddingAnnotation' = r.isAddingAnnotation
    /\ pendingAnnotationPosition' = r.pendingAnnotationPosition
    /\ previewMarker' = r.previewMarker
    /\ placedMarker' = r.placedMarker
    /\ scene' = r.scene
    /\ cameraPosition' = r.cameraPosition
    /\ controlsTarget' = r.controlsTarget
    /\ frameCallbacks' = r.frameCallbacks
    /\ lastCall' = Call(op, args)

\* The same within the bounds of the model.
Apply(r, op, args) ==
    /\ Len(r.annotations) <= MaxAnnotations
    /\ Len(r.frameCallbacks) <= MaxAnimations
    /\ Commit(r, op, args)

\* The same with room for overlapping camera animations.
ApplyCamera(r, op, args) ==
    /\ Len(r.annotations) <= MaxAnnotations
    /\ Len(r.frameCallbacks) <= MaxCameraAnimations
    /\ Commit(r, op, args)

\* The indices a caller may pass: the valid ones and one beyond each end.
IndexInputs == -1..Len(annotations)

\* What a ray can meet (see onCanvasClick).
MarkerHits == {None} \cup {Some(k) : k \in 1..Len(annotationMarkers)}
ModelHits(points) == {None} \cup {Some(p) : p \in points}

OnModelLoaded ==
    /\ loadingScreen = "loading"
    /\ Apply(onModelLoaded(St), "onModelLoaded", <<>>)

OnLoadError ==
    /\ loadingScreen = "loading"
    /\ Apply(onLoadError(St), "onLoadError", <<>>)

Animate ==
    \E dt \in FrameTimes : Apply(animate(St, dt), "animate", <<dt>>)

ClickAt(points) ==
    \E markerHit \in MarkerHits, modelHit \in ModelHits(points) :
        Apply(onCanvasClick(St, markerHit, modelHit), "onCanvasClick",
              <<markerHit, modelHit>>)

OnCanvasClick == ClickAt(PlacementPoints)

\* A click anywhere on the surface, for the measurement tool.
OnCanvasClickSurface == ClickAt(SurfacePoints)

OnCanvasMouseMove ==
    \E modelHit \in ModelHits(HoverPoints) :
        Apply(onCanvasMouseMove(St, modelHit), "onCanvasMouseMove", <<modelHit>>)

FocusAnnotation ==
    \E index \in IndexInputs :
        Apply(focusAnnotation(St, index), "focusAnnotation", <<index>>)

DeleteAnnotation ==
    \E index \in IndexInputs :
        Apply(deleteAnnotation(St, index), "deleteAnnotation", <<index>>)

SaveAnnotation ==
    \E titleInput \in TitleInputs, descriptionInput \in DescriptionInputs :
        Apply(saveAnnotation(St, titleInput, descriptionInput), "saveAnnotation",
              <<titleInput, descriptionInput>>)

CancelAnnotation == Apply(cancelAnnotation(St), "cancelAnnotation", <<>>)

ToggleAddAnnotationMode ==
    Apply(toggleAddAnnotationMode(St), "toggleAddAnnotationMode", <<>>)

ToggleMeasureMode == Apply(toggleMeasureMode(St), "toggleMeasureMode", <<>>)

StartTour == Apply(startTour(St), "startTour", <<>>)

EndTour == Apply(endTour(St), "endTour", <<>>)

TourStartClick == Apply(tourStartClick(St), "tourStartClick", <<>>)

NextTourStop == Apply(nextTourStop(St), "nextTourStop", <<>>)

PrevTourStop == Apply(prevTourStop(St), "prevTourStop", <<>>)

InfoCloseClick == Apply(infoCloseClick(St), "infoCloseClick", <<>>)

ResetView == Apply(resetView(St), "resetView", <<>>)

Keydown == \E key \in Keys : Apply(keydown(St, key), "keydown", <<key>>)

\* Titles and descriptions that tell the saved annotations apart, and the one
\* surface point they are placed at.
StoreInputs == {<<(<<"Horse">>), (<<>>)>>,
                <<(<<" ", "Rider">>), (<<"Frieze", " ">>)>>}
StorePoints == {<<100, 100, 0>>}

SaveAnnotationAs ==
    \E input \in StoreInputs :
        Apply(saveAnnotation(St, input[1], input[2]), "saveAnnotation", input)

OnCanvasClickStore == ClickAt(StorePoints)

\* focusAnnotation on an existing entry, also while animations are in flight.
FocusAnnotationInFlight ==
    \E index \in 0..(Len(annotations) - 1) :
        ApplyCamera(focusAnnotation(St, index), "focusAnnotation", <<index>>)

\* Milliseconds from one display refresh to the next, and milliseconds the
\* clock moves on between two closures of one refresh.
FrameAdvances == {499, 500}
ClockTicks == {0, 1}

AnimateTicking ==
    \E advance \in FrameAdvances, tick \in ClockTicks :
        ApplyCamera(animateTicking(St, [k \in 1..Len(frameCallbacks) |->
                                          IF k = 1 THEN advance ELSE tick]),
                    "animate", <<advance, tick>>)

\* The arguments animateCamera is applied to as a function of its own: two
\* destinations, two targets, the default duration and duration 0, and the
\* time its first update() reads.
CameraDestinations == {<<50, 30, 150>>, <<350, 430, 150>>}
CameraTargets == {<<0, 0, 0>>, <<300, 400, 0>>}
Durations == {0, Duration}
FirstElapsed == {0, 1}

AnimateCamera ==
    \E newPosition \in CameraDestinations, newTarget \in CameraTargets,
       duration \in Durations, elapsed \in FirstElapsed :
        Apply(animateCameraAt(St, newPosition, newTarget, duration, elapsed),
              "animateCamera", <<newPosition, newTarget, duration, elapsed>>)

Init ==
    /\ model = InitialState.model
    /\ loadingScreen = InitialState.loadingScreen
    /\ annotations = InitialState.annotations
    /\ annotationMarkers = InitialState.annotationMarkers
    /\ tourIndex = InitialState.tourIndex
    /\ isTourActive = InitialState.isTourActive
    /\ infoPanel = InitialState.infoPanel
    /\ isMeasuring = InitialState.isMeasuring
    /\ measurePoints = InitialState.measurePoints
    /\ measureMarkers = InitialState.measureMarkers
    /\ measureLine = InitialState.measureLine
    /\ measurementResult = InitialState.measurementResult
    /\ isAddingAnnotation = InitialState.isAddingAnnotation
    /\ pendingAnnotationPosition = InitialState.pendingAnnotationPosition
    /\ previewMarker = InitialState.previewMarker
    /\ placedMarker = InitialState.placedMarker
    /\ scene = InitialState.scene
    /\ cameraPosition = InitialState.cameraPosition
    /\ controlsTarget = InitialState.controlsTarget
    /\ frameCallbacks = InitialState.frameCallbacks
    /\ lastCall = Call("init", <<>>)

Next ==
    \/ OnModelLoaded
    \/ OnLoadError
    \/ Animate
    \/ OnCanvasClick
    \/ OnCanvasMouseMove
    \/ FocusAnnotation
    \/ DeleteAnnotation
    \/ SaveAnnotation
    \/ CancelAnnotation
    \/ ToggleAddAnnotationMode
    \/ StartTour
    \/ EndTour
    \/ TourStartClick
    \/ NextTourStop
    \/ PrevTourStop
    \/ InfoCloseClick
    \/ ResetView
    \/ Keydown

\* The handlers the page's listeners reach, each in any state and with any
\* argument of the input sets. No listener invokes toggleMeasureMode.
Spec == Init /\ [][Next]_vars

\* The measurement tool next to the placement mode: the two mode toggles and
\* the pointer handlers, on a loaded or loading model.
NextMeasure ==
    \/ OnModelLoaded
    \/ ToggleMeasureMode
    \/ ToggleAddAnnotationMode
    \/ OnCanvasClickSurface
    \/ OnCanvasMouseMove

SpecMeasure == Init /\ [][NextMeasure]_vars

\* The three modes next to each other: measuring, placing and the tour on
\* the saved annotations, with the pointer handlers.
NextModes ==
    \/ OnModelLoaded
    \/ ToggleMeasureMode
    \/ ToggleAddAnnotationMode
    \/ OnCanvasClick
    \/ OnCanvasMouseMove
    \/ SaveAnnotation
    \/ TourStartClick
    \/ EndTour
    \/ Animate

SpecModes == Init /\ [][NextModes]_vars

\* The annotation store with annotations that differ in title and
\* description: placing, saving, focusing and deleting them, by the cards, the
\* markers and the tour button.
NextStore ==
    \/ OnModelLoaded
    \/ ToggleAddAnnotationMode
    \/ OnCanvasClickStore
    \/ SaveAnnotationAs
    \/ FocusAnnotation
    \/ DeleteAnnotation
    \/ TourStartClick
    \/ InfoCloseClick
    \/ Animate

SpecStore == Init /\ [][NextStore]_vars

\* Overlapping camera animations: annotations are placed and focused while
\* earlier animations are in flight, and the clock moves on inside a refresh.
NextCamera ==
    \/ OnModelLoaded
    \/ ToggleAddAnnotationMode
    \/ OnCanvasClick
    \/ SaveAnnotation
    \/ FocusAnnotationInFlight
    \/ AnimateTicking

SpecCamera == Init /\ [][NextCamera]_vars

\* animateCamera as a function of its arguments, and the refreshes that run
\* the closures it leaves.
NextAnimateCamera ==
    \/ AnimateCamera
    \/ Animate

SpecAnimateCamera == Init /\ [][NextAnimateCamera]_vars

(***************************************************************************)
(* Properties                                                              *)
(***************************************************************************)
\* The application state without the record of the last call.
appVars == <<model, loadingScreen, annotations, annotationMarkers, tourIndex,
             isTourActive, infoPanel, isMeasuring, measurePoints,
             measureMarkers, measureLine, measurementResult,
             isAddingAnnotation, pendingAnnotationPosition, previewMarker,
             placedMarker, scene, cameraPosition, controlsTarget,
             frameCallbacks>>

\* The step is a call of handler `op`.
Called(op) == lastCall'.op = op

\* C1: after every save and delete, each stored annotation's id is its list
\* index + 1, so the ids are exactly 1..N.
C1_OrdinalsAreIndexPlusOne ==
    \A k \in 1..Len(annotations) : annotations[k].id = k

\* C1 witness: the first of two annotations was deleted, and the one that was
\* second is now alone in the list.
C1_Witness ==
    /\ lastCall.op = "deleteAnnotation"
    /\ lastCall.args = <<0>>
    /\ Len(annotations) = 1

\* C2: in every reachable state the tour cursor lies in [-1, N-1].
C2_TourIndexInRange ==
    tourIndex \in -1..(Len(annotations) - 1)

\* C2 witness: the last of two annotations was deleted during a tour and the
\* cursor is on the last remaining entry.
C2_Witness ==
    /\ lastCall.op = "deleteAnnotation"
    /\ lastCall.args = <<1>>
    /\ Len(annotations) = 1
    /\ isTourActive
    /\ tourIndex = 0

\* C3 (as claimed): no reachable state has both isMeasuring and
\* isAddingAnnotation true.
C3_ModesMutuallyExclusive ==
    ~(isMeasuring /\ isAddingAnnotation)

\* C4 (as claimed, for the deletion of an existing entry): whenever
\* deleteAnnotation leaves the store empty, the cursor is -1 and the tour is
\* not active.
C4_EmptyStoreEndsTour ==
    [][(/\ Called("deleteAnnotation")
        /\ lastCall'.args[1] \in 0..(Len(annotations) - 1)
        /\ Len(annotations') = 0)
       => (tourIndex' = -1 /\ ~isTourActive')]_vars

\* C5: saveAnnotation with a title that is empty after trimming, or with no
\* staged position, changes neither the annotation list, the placement mode
\* flag, the pending position, the markers nor the tour cursor.
C5_RejectedSaveChangesNothing ==
    [][(/\ Called("saveAnnotation")
        /\ \/ Trim(lastCall'.args[1]) = <<>>
           \/ pendingAnnotationPosition = None)
       => UNCHANGED <<annotations, isAddingAnnotation,
                      pendingAnnotationPosition, annotationMarkers,
                      previewMarker, placedMarker, tourIndex>>]_vars

\* C5 witness: a save with a blank title was called in placement mode with a
\* position staged, and the list is still empty.
C5_Witness ==
    /\ lastCall.op = "saveAnnotation"
    /\ lastCall.args[1] = <<" ">>
    /\ isAddingAnnotation
    /\ pendingAnnotationPosition # None
    /\ placedMarker # None
    /\ annotations = <<>>

\* C6: focusAnnotation(index) with index outside [0, N-1] leaves the tour
\* cursor, the detail panel, the camera and its running animations and the
\* annotation list unchanged.
C6_OutOfRangeFocusChangesNothing ==
    [][(/\ Called("focusAnnotation")
        /\ \/ lastCall'.args[1] < 0
           \/ lastCall'.args[1] >= Len(annotations))
       => UNCHANGED <<tourIndex, infoPanel, cameraPosition, controlsTarget,
                      frameCallbacks, annotations>>]_vars

\* C6 witness: focusAnnotation(N) was called with N = 2 annotations while the
\* panel showed the first one.
C6_Witness ==
    /\ lastCall.op = "focusAnnotation"
    /\ lastCall.args = <<2>>
    /\ Len(annotations) = 2
    /\ tourIndex = 0
    /\ ~infoPanel.hidden

\* C7 (as claimed): deleteAnnotation(index) with index < 0 or index >= N
\* changes neither the annotation list nor the tour cursor.
C7_OutOfRangeDeleteChangesNothing ==
    [][(/\ Called("deleteAnnotation")
        /\ \/ lastCall'.args[1] < 0
           \/ lastCall'.args[1] >= Len(annotations))
       => UNCHANGED <<annotations, tourIndex>>]_vars

\* C8: a measurement session never holds more than two points; with two
\* points recorded a canvas click changes neither the points, the markers,
\* the line nor the published distance, and only toggleMeasureMode ends the
\* session.
C8_ThirdPickRejected ==
    /\ [](Len(measurePoints) <= 2 /\ Len(measureMarkers) <= 2)
    /\ [][(Called("onCanvasClick") /\ isMeasuring /\ Len(measurePoints) = 2)
          => UNCHANGED <<measurePoints, measureMarkers, measureLine,
                         measurementResult>>]_vars
    /\ [][(Len(measurePoints) = 2 /\ measurePoints' # measurePoints)
          => Called("toggleMeasureMode")]_vars

\* C8 witness: with two points recorded, the surface was clicked at a third
\* place, which is not the second recorded point.
C8_Witness ==
    /\ isMeasuring
    /\ Len(measurePoints) = 2
    /\ lastCall.op = "onCanvasClick"
    /\ lastCall.args[2] # None
    /\ Get(lastCall.args[2]) # measurePoints[2]
    /\ Get(lastCall.args[2]) # measurePoints[1]

\* The squared distance of the two recorded points, in hundredths squared.
MeasuredSquare ==
    (measurePoints[1][1] - measurePoints[2][1]) * (measurePoints[1][1] - measurePoints[2][1])
  + (measurePoints[1][2] - measurePoints[2][2]) * (measurePoints[1][2] - measurePoints[2][2])
  + (measurePoints[1][3] - measurePoints[2][3]) * (measurePoints[1][3] - measurePoints[2][3])

\* C9 (as claimed): a distance is published exactly when two points are
\* recorded, and the published value is the Euclidean distance of the two
\* points: its square, in thousandths, is 100 times the squared distance in
\* hundredths.
C9_PublishedIsExactDistance ==
    /\ (measurementResult # None) <=> (Len(measurePoints) = 2)
    /\ measurementResult # None =>
          Get(measurementResult) * Get(measurementResult) = 100 * MeasuredSquare

\* C9 (amended): a distance is published exactly when two points are
\* recorded, and the published value is the Euclidean distance of the two
\* points rounded to three decimals: it differs from the distance by at most
\* half a thousandth.
C9_PublishedIsRoundedDistance ==
    /\ (measurementResult # None) <=> (Len(measurePoints) = 2)
    /\ measurementResult # None =>
          LET m == Get(measurementResult)
          IN  /\ m >= 0
              /\ m = 0 => MeasuredSquare = 0
              /\ m > 0 => (2 * m - 1) * (2 * m - 1) <= 400 * MeasuredSquare
              /\ 400 * MeasuredSquare <= (2 * m + 1) * (2 * m + 1)

\* C9 witness: (0,0,0) and (3,4,0) were picked and 5.000 is published.
C9_Witness ==
    /\ measurePoints = <<(<<0, 0, 0>>), (<<300, 400, 0>>)>>
    /\ measurementResult = Some(5000)
    /\ lastCall.op = "onCanvasClick"

\* C10: startTour with zero annotations leaves the application state
\* unchanged: the tour flag and the cursor keep their values, the cursor
\* being -1, and no camera animation is started.
C10_StartTourOnEmptyChangesNothing ==
    [][(/\ \/ Called("startTour")
           \/ (Called("tourStartClick") /\ ~isTourActive)
        /\ Len(annotations) = 0)
       => (UNCHANGED appVars /\ tourIndex' = -1)]_vars

\* C10 witness: startTour was called on a loaded model with no annotation and
\* the tour is inactive.
C10_Witness ==
    /\ lastCall.op = "startTour"
    /\ model # None
    /\ Len(annotations) = 0
    /\ ~isTourActive
    /\ frameCallbacks = <<>>

\* The step is a press of `key` during a tour.
TourKey(key) ==
    /\ Called("keydown")
    /\ lastCall'.args[1] = key
    /\ isTourActive

\* C11: nextTourStop (the button or ArrowRight during a tour) moves the cursor
\* from c to c + 1 when c < N - 1 and otherwise changes nothing; prevTourStop
\* (the button or ArrowLeft during a tour) moves it from c to c - 1 when
\* c > 0 and otherwise changes nothing; neither changes the annotation list.
C11_TourNavigationLinear ==
    /\ [][(Called("nextTourStop") \/ TourKey("ArrowRight"))
          => IF tourIndex < Len(annotations) - 1
             THEN tourIndex' = tourIndex + 1 /\ annotations' = annotations
             ELSE UNCHANGED appVars]_vars
    /\ [][(Called("prevTourStop") \/ TourKey("ArrowLeft"))
          => IF tourIndex > 0
             THEN tourIndex' = tourIndex - 1 /\ annotations' = annotations
             ELSE UNCHANGED appVars]_vars

\* C11 witness: nextTourStop was called at the last of two stops, the panel
\* showing that stop.
C11_Witness ==
    /\ lastCall.op = "nextTourStop"
    /\ Len(annotations) = 2
    /\ tourIndex = 1
    /\ isTourActive
    /\ ~infoPanel.hidden

\* C12: endTour, called in any state (directly or by the tour button during
\* a tour), leaves the cursor at -1, the tour inactive and the detail panel
\* hidden, and changes neither the annotation list and its markers, the
\* measurement session nor the placement mode.
C12_EndTourEffect ==
    [][(Called("endTour") \/ (Called("tourStartClick") /\ isTourActive))
       => /\ tourIndex' = -1
          /\ ~isTourActive'
          /\ infoPanel'.hidden
          /\ UNCHANGED <<annotations, annotationMarkers, isMeasuring,
                         measurePoints, measureMarkers, measureLine,
                         measurementResult, isAddingAnnotation,
                         pendingAnnotationPosition, previewMarker,
                         placedMarker>>]_vars

\* C12 witness: endTour was called while measuring with one point recorded
\* and placing; an annotation had been shown in the panel, which is hidden.
C12_Witness ==
    /\ lastCall.op = "endTour"
    /\ isMeasuring
    /\ Len(measurePoints) = 1
    /\ isAddingAnnotation
    /\ Len(annotations) = 1
    /\ infoPanel.title # <<>>
    /\ infoPanel.hidden
    /\ tourIndex = -1

\* C13: every toggleMeasureMode, on or off, leaves the measurement session
\* empty: no recorded point, no marker, no line and no published distance.
C13_ToggleClearsMeasurement ==
    [][Called("toggleMeasureMode")
       => /\ measurePoints' = <<>>
          /\ measureMarkers' = <<>>
          /\ measureLine' = None
          /\ measurementResult' = None]_vars

\* C13 witness: measurement mode was toggled off and the session is empty.
C13_Witness ==
    /\ lastCall.op = "toggleMeasureMode"
    /\ ~isMeasuring
    /\ measurePoints = <<>>
    /\ measureMarkers = <<>>
    /\ measureLine = None
    /\ measurementResult = None

\* C14 (as claimed): whenever placement mode is not active there is no
\* pending position, no preview marker and no placed marker.
C14_NoPendingOutsidePlacement ==
    ~isAddingAnnotation
        => /\ pendingAnnotationPosition = None
           /\ previewMarker = None
           /\ placedMarker = None

\* C15 (as claimed): every saveAnnotation that appends an entry happens in
\* placement mode, uses the position a surface click staged in that same
\* placement session (its placed marker is shown), and leaves placement mode.
C15_SaveOnlyInPlacement ==
    [][(Called("saveAnnotation") /\ Len(annotations') > Len(annotations))
       => /\ isAddingAnnotation
          /\ placedMarker # None
          /\ pendingAnnotationPosition # None
          /\ annotations'[Len(annotations')].position
                 = Get(pendingAnnotationPosition)
          /\ ~isAddingAnnotation']_vars

\* C20: onLoadError leaves the error shown and no load pending; from then on
\* the model stays absent, neither loader callback runs again, and every
\* canvas click and mouse move leaves the application state unchanged.
C20_LoadFailureTerminal ==
    /\ [][Called("onLoadError") => loadingScreen' = "error"]_vars
    /\ [](loadingScreen = "error" => model = None)
    /\ [][loadingScreen = "error"
          => /\ loadingScreen' = "error"
             /\ model' = None
             /\ ~Called("onModelLoaded")
             /\ ~Called("onLoadError")]_vars
    /\ [][(/\ loadingScreen = "error"
           /\ Called("onCanvasClick") \/ Called("onCanvasMouseMove"))
          => UNCHANGED appVars]_vars

\* C20 witness: after the failure placement mode was entered, and a click
\* aimed at the surface staged nothing.
C20_Witness ==
    /\ loadingScreen = "error"
    /\ lastCall.op = "onCanvasClick"
    /\ lastCall.args[2] # None
    /\ isAddingAnnotation
    /\ pendingAnnotationPosition = None
    /\ placedMarker = None

\* Neither measuring nor placing.
Idle == ~isMeasuring /\ ~isAddingAnnotation

\* C16: a canvas click on a loaded model that meets a marker while idle
\* moves the cursor to that marker's annotation, shows it in the panel, starts
\* the camera towards it and changes nothing else; a click while measuring or
\* placing changes neither the cursor, the panel nor the camera animations;
\* a click while idle changes neither the measurement session nor the pending
\* placement.
C16_ClickRouting ==
    /\ [][(/\ Called("onCanvasClick")
           /\ model # None
           /\ Idle
           /\ lastCall'.args[1] # None)
          => LET marker == annotationMarkers[Get(lastCall'.args[1])]
                 annotation == annotations[marker.index + 1]
             IN  /\ tourIndex' = marker.index
                 /\ infoPanel' = [hidden |-> FALSE,
                                  title |-> annotation.title,
                                  description |-> annotation.description]
                 /\ frameCallbacks' # <<>>
                 /\ frameCallbacks'[Len(frameCallbacks')].newTarget
                        = annotation.position
                 /\ UNCHANGED <<model, loadingScreen, annotations,
                                annotationMarkers, isTourActive, isMeasuring,
                                measurePoints, measureMarkers, measureLine,
                                measurementResult, isAddingAnnotation,
                                pendingAnnotationPosition, previewMarker,
                                placedMarker>>]_vars
    /\ [][(Called("onCanvasClick") /\ ~Idle)
          => UNCHANGED <<tourIndex, infoPanel, frameCallbacks, cameraPosition,
                         controlsTarget>>]_vars
    /\ [][(Called("onCanvasClick") /\ Idle)
          => UNCHANGED <<measurePoints, measureMarkers, measureLine,
                         measurementResult, pendingAnnotationPosition,
                         previewMarker, placedMarker>>]_vars

\* C16 witness: while measuring, a click whose ray passes through the marker
\* of the only annotation recorded a measure point; the cursor is still -1.
C16_Witness ==
    /\ lastCall.op = "onCanvasClick"
    /\ lastCall.args[1] # None
    /\ lastCall.args[2] # None
    /\ isMeasuring
    /\ measurePoints = <<Get(lastCall.args[2])>>
    /\ Len(annotations) = 1
    /\ tourIndex = -1

\* C17: a canvas click that meets neither a marker nor the model, or arrives
\* with no model loaded, changes nothing; a mouse move that misses the model,
\* or arrives with no model loaded, changes nothing except that it may hide
\* the preview marker.
C17_PickMissChangesNothing ==
    /\ [][(/\ Called("onCanvasClick")
           /\ \/ model = None
              \/ lastCall'.args = <<None, None>>)
          => UNCHANGED appVars]_vars
    /\ [][(/\ Called("onCanvasMouseMove")
           /\ \/ model = None
              \/ lastCall'.args = <<None>>)
          => /\ UNCHANGED <<model, loadingScreen, annotations,
                            annotationMarkers, tourIndex, isTourActive,
                            infoPanel, isMeasuring, measurePoints,
                            measureMarkers, measureLine, measurementResult,
                            isAddingAnnotation, pendingAnnotationPosition,
                            placedMarker, cameraPosition, controlsTarget,
                            frameCallbacks>>
             /\ \/ previewMarker' = previewMarker
                \/ /\ model # None
                   /\ previewMarker # None
                   /\ previewMarker' =
                          Some([Get(previewMarker) EXCEPT !.visible = FALSE])]_vars

\* C17 witness: in placement mode with nothing staged, the pointer left the
\* model and the preview marker, shown before on the surface, is hidden.
C17_Witness ==
    /\ lastCall.op = "onCanvasMouseMove"
    /\ lastCall.args = <<None>>
    /\ isAddingAnnotation
    /\ pendingAnnotationPosition = None
    /\ previewMarker # None
    /\ ~Get(previewMarker).visible
    /\ Get(previewMarker).position # LiftY(PreviewParking, 9)

\* C18 (as claimed): an animation started by focusAnnotation starts from the
\* live camera position and target, also while another one is in flight; and
\* once no frame callback is pending, the camera rests at the destination of
\* the animation started last, which is the one of the annotation the cursor
\* is on.
C18_LatestAnimationWins ==
    /\ [][(/\ Called("focusAnnotation")
           /\ lastCall'.args[1] \in 0..(Len(annotations) - 1))
          => LET started == frameCallbacks'[Len(frameCallbacks')]
             IN  /\ started.startPosition = cameraPosition
                 /\ started.startTarget = controlsTarget
                 /\ started.newTarget
                        = annotations[lastCall'.args[1] + 1].position]_vars
    /\ []((frameCallbacks = <<>> /\ tourIndex >= 0)
          => /\ controlsTarget = annotations[tourIndex + 1].position
             /\ cameraPosition
                    = VecAdd(annotations[tourIndex + 1].position, CameraOffset))

\* C19 (as claimed): animateCamera with duration 0 leaves the camera at the
\* requested position and target and schedules no frame callback, whatever
\* time its first update reads.
C19_ZeroDurationCompletes ==
    [][(Called("animateCamera") /\ lastCall'.args[3] = 0)
       => /\ cameraPosition' = lastCall'.args[1]
          /\ controlsTarget' = lastCall'.args[2]
          /\ frameCallbacks' = frameCallbacks]_vars

\* C21: a saveAnnotation that changes the list appends exactly one entry at
\* the end, with id = previous length + 1, the trimmed title (not empty), the
\* trimmed description or the placeholder when that is empty, and the staged
\* position; the entries that were there and the tour cursor are unchanged.
C21_SaveAppendsOne ==
    [][(Called("saveAnnotation") /\ annotations' # annotations)
       => /\ Len(annotations') = Len(annotations) + 1
          /\ SubSeq(annotations', 1, Len(annotations)) = annotations
          /\ LET new == annotations'[Len(annotations) + 1]
             IN  /\ new.id = Len(annotations) + 1
                 /\ new.title = Trim(lastCall'.args[1])
                 /\ new.title # <<>>
                 /\ new.description # <<>>
                 /\ new.description =
                        IF Trim(lastCall'.args[2]) = <<>>
                        THEN DescriptionPlaceholder
                        ELSE Trim(lastCall'.args[2])
                 /\ new.position = Get(pendingAnnotationPosition)
          /\ tourIndex' = tourIndex]_vars

\* C21 witness: with the cursor on the first annotation, a second one was
\* saved with an empty description and carries the placeholder.
C21_Witness ==
    /\ lastCall.op = "saveAnnotation"
    /\ lastCall.args[2] = <<>>
    /\ Len(annotations) = 2
    /\ annotations[1].title = <<"Rider">>
    /\ annotations[2].title = <<"Horse">>
    /\ annotations[2].description = DescriptionPlaceholder
    /\ tourIndex = 0

\* What an annotation is, without its ordinal.
Content(a) ==
    [title |-> a.title, description |-> a.description, position |-> a.position]

\* C22: deleteAnnotation(i) with 0 <= i < N removes entry i and keeps the
\* other entries in their order; the cursor becomes -1 when the list is
\* empty, the new last index when it was beyond it, and keeps its value
\* otherwise.
C22_DeleteRemovesOne ==
    [][(/\ Called("deleteAnnotation")
        /\ lastCall'.args[1] \in 0..(Len(annotations) - 1))
       => /\ Len(annotations') = Len(annotations) - 1
          /\ \A k \in 1..(Len(annotations) - 1) :
                Content(annotations'[k]) =
                    Content(annotations[IF k <= lastCall'.args[1]
                                        THEN k ELSE k + 1])
          /\ tourIndex' =
                IF Len(annotations) = 1 THEN -1
                ELSE IF tourIndex > Len(annotations) - 2
                     THEN Len(annotations) - 2
                     ELSE tourIndex]_vars

\* C22 witness: the first of two annotations was deleted while the cursor
\* was on it; the cursor is still 0 and now designates the annotation that
\* followed.
C22_Witness ==
    /\ lastCall.op = "deleteAnnotation"
    /\ lastCall.args = <<0>>
    /\ Len(annotations) = 1
    /\ annotations[1].title = <<"Horse">>
    /\ infoPanel.title = <<"Rider">>
    /\ tourIndex = 0

\* C23 (as claimed): whenever the detail panel is visible, the cursor is on
\* an annotation and the panel shows that annotation's title and description.
C23_PanelShowsCursorAnnotation ==
    ~infoPanel.hidden
        => /\ tourIndex \in 0..(Len(annotations) - 1)
           /\ infoPanel.title = annotations[tourIndex + 1].title
           /\ infoPanel.description = annotations[tourIndex + 1].description

\* C26: in every reachable state there is one marker per annotation, in
\* order, marker k carrying index k - 1 and standing at annotation k; and a
\* click on a loaded model that meets marker k outside placement and
\* measuring mode puts the cursor on annotation k and shows it.
C26_MarkersMatchAnnotations ==
    /\ [](/\ Len(annotationMarkers) = Len(annotations)
          /\ \A k \in 1..Len(annotationMarkers) :
                /\ annotationMarkers[k].index = k - 1
                /\ ~annotationMarkers[k].isPreview
                /\ annotationMarkers[k].position
                       = LiftY(annotations[k].position, 6))
    /\ [][(/\ Called("onCanvasClick")
           /\ model # None
           /\ ~isMeasuring
           /\ ~isAddingAnnotation
           /\ lastCall'.args[1] # None)
          => /\ Get(lastCall'.args[1]) \in 1..Len(annotations)
             /\ tourIndex' = Get(lastCall'.args[1]) - 1
             /\ ~infoPanel'.hidden
             /\ infoPanel'.title = annotations[Get(lastCall'.args[1])].title]_vars

\* C26 witness: after the first of two annotations was deleted, the marker
\* of the remaining one was clicked and the cursor is on it.
C26_Witness ==
    /\ lastCall.op = "onCanvasClick"
    /\ lastCall.args[1] = Some(1)
    /\ Len(annotations) = 1
    /\ annotations[1].title = <<"Horse">>
    /\ annotations[1].id = 1
    /\ infoPanel.title = <<"Horse">>
    /\ tourIndex = 0
    /\ ~infoPanel.hidden

\* C24: with the handlers the listeners reach, measurement mode is never
\* entered: in every reachable state isMeasuring is false, no point, marker
\* or line is recorded and no distance is published.
C24_MeasureModeNeverEntered ==
    /\ ~isMeasuring
    /\ measurePoints = <<>>
    /\ measureMarkers = <<>>
    /\ measureLine = None
    /\ measurementResult = None

\* C24 witness: the loaded model's surface was clicked outside placement
\* mode, and nothing was recorded.
C24_Witness ==
    /\ lastCall.op = "onCanvasClick"
    /\ lastCall.args[1] = None
    /\ lastCall.args[2] # None
    /\ model # None
    /\ ~isAddingAnnotation
    /\ measurePoints = <<>>

\* C25: in every reachable state without a loaded model the annotation list
\* is empty, nothing is staged, the tour is inactive and the cursor is -1.
C25_NoAnnotationWithoutModel ==
    model = None
        => /\ annotations = <<>>
           /\ annotationMarkers = <<>>
           /\ pendingAnnotationPosition = None
           /\ ~isTourActive
           /\ tourIndex = -1

\* C25 witness: after a load error, in placement mode, the surface was aimed
\* at and a save with a title was tried; the list is empty.
C25_Witness ==
    /\ loadingScreen = "error"
    /\ model = None
    /\ lastCall.op = "saveAnnotation"
    /\ Trim(lastCall.args[1]) # <<>>
    /\ isAddingAnnotation
    /\ annotations = <<>>

\* C27: in every reachable state a preview marker exists exactly in
\* placement mode, a placed marker exists only in placement mode with a
\* position staged, and the scene holds exactly the preview marker and the
\* placed marker the state refers to, so at most one of each.
C27_PlacementMarkers ==
    /\ (previewMarker # None) <=> isAddingAnnotation
    /\ placedMarker # None
          => (isAddingAnnotation /\ pendingAnnotationPosition # None)
    /\ scene.previewMarkers = Len(previewMarker)
    /\ scene.placedMarkers = Len(placedMarker)
    /\ scene.previewMarkers <= 1
    /\ scene.placedMarkers <= 1

\* C27 witness: in placement mode the surface was clicked a second time, at
\* another point; one placed marker and one preview marker are in the scene.
C27_Witness ==
    /\ lastCall.op = "onCanvasClick"
    /\ isAddingAnnotation
    /\ pendingAnnotationPosition = Some(<<300, 400, 0>>)
    /\ placedMarker = Some(createPlacedMarker(<<300, 400, 0>>))
    /\ scene.placedMarkers = 1
    /\ scene.previewMarkers = 1

====
